---- MODULE Spec2Model ----
(***************************************************************************)
(* Model of the algos library: AvlTree, RedBlackTree (linked nodes owned   *)
(* through unique_ptr slots, raw parent back-pointers) and Heap with the   *)
(* push_heap / pop_heap / make_heap algorithms.                            *)
(*                                                                         *)
(* Nodes live in an arena indexed by address 1..MaxNodes; address 0 is     *)
(* nullptr.  A unique_ptr<Node>& parameter is a slot: the tree's root      *)
(* handle or the left/right field of a node.  Dereferencing nullptr or a   *)
(* destroyed node, and a failed assert, end the run: the tree's fault flag *)
(* is raised and no further call is made on it.                            *)
(***************************************************************************)
EXTENDS Integers, Sequences, FiniteSets, TLC

\* ---- bounds -------------------------------------------------------------
MaxKey == 4
MaxVal == 2
MaxNodes == 9
\* keys of the runs that only insert
MaxInsKey == 5
\* number of calls of the runs that record the order of the inserted keys
MaxOps == 4
MaxLen == 5
MaxElem == 3
MaxDistinct == 6

Keys == 1..MaxKey
InsKeys == 1..MaxInsKey
Vals == 1..MaxVal
NodeIds == 1..MaxNodes
Null == 0
\* an invalid pointer: the address of a destroyed node
Bad == -1

VARIABLES sut, avl, rbt, storage, comp, ret, ref, net, log, out

vars == <<sut, avl, rbt, storage, comp, ret, ref, net, log, out>>

\* Compare = std::less<K>
Compare(a, b) == a < b

Max(a, b) == IF a >= b THEN a ELSE b

\* ---- slots (unique_ptr<Node>&) ------------------------------------------
RootSlot == [owner |-> Null, side |-> "root"]
LeftSlot(n) == [owner |-> n, side |-> "left"]
RightSlot(n) == [owner |-> n, side |-> "right"]

Live(t, n) == n \in NodeIds /\ t.node[n].alive

\* the slot's storage still exists
SlotOk(t, s) == s.owner = Null \/ Live(t, s.owner)

Get(t, s) ==
    IF s.owner = Null THEN t.root
    ELSE IF s.side = "left" THEN t.node[s.owner].left
    ELSE t.node[s.owner].right

Put(t, s, n) ==
    IF s.owner = Null THEN [t EXCEPT !.root = n]
    ELSE IF s.side = "left" THEN [t EXCEPT !.node[s.owner].left = n]
    ELSE [t EXCEPT !.node[s.owner].right = n]

Faulted(t) == [t EXCEPT !.fault = TRUE]

\* ---- AvlTree ------------------------------------------------------------
AvlDead == [alive |-> FALSE, key |-> 0, val |-> 0, parent |-> Null,
            height |-> 0, left |-> Null, right |-> Null]

AvlNode(k, v, p) == [alive |-> TRUE, key |-> k, val |-> v, parent |-> p,
                     height |-> 0, left |-> Null, right |-> Null]

AvlEmpty == [node |-> [n \in NodeIds |-> AvlDead], root |-> Null, fault |-> FALSE]

FreeIds(t) == {n \in NodeIds : ~t.node[n].alive}

\* std::make_unique<Node>: a fresh address
NewAddr(t) == CHOOSE n \in FreeIds(t) : \A m \in FreeIds(t) : n <= m

\* ~unique_ptr<Node>: destroys the node and, through its left and right
\* members, the whole subtree it owns
RECURSIVE DestroyNodes(_, _, _)
DestroyNodes(t, n, dead) ==
    IF n = Null THEN t
    ELSE IF ~Live(t, n) THEN Faulted(t)
    ELSE LET t1 == DestroyNodes(t, t.node[n].right, dead)
             t2 == DestroyNodes(t1, t.node[n].left, dead)
         IN [t2 EXCEPT !.node[n] = dead]

\* a parent pointer left pointing at a destroyed node is an invalid pointer
\* from then on, whatever is allocated at that address later
Destroy(t, n, dead) ==
    LET t1 == DestroyNodes(t, n, dead)
    IN [t1 EXCEPT !.node = [m \in NodeIds |->
            IF t1.node[m].alive /\ t1.node[m].parent \in NodeIds
               /\ ~t1.node[t1.node[m].parent].alive
            THEN [t1.node[m] EXCEPT !.parent = Bad]
            ELSE t1.node[m]]]

AvlTree_getHeight(t, n) == IF n = Null THEN -1 ELSE t.node[n].height

AvlTree_updateHeight(t, n) ==
    IF t.fault THEN t
    ELSE IF ~Live(t, n) THEN Faulted(t)
    ELSE [t EXCEPT !.node[n].height =
            Max(AvlTree_getHeight(t, t.node[n].left),
                AvlTree_getHeight(t, t.node[n].right)) + 1]

AvlTree_getBalanceFactor(t, n) ==
    IF n = Null THEN 0
    ELSE AvlTree_getHeight(t, t.node[n].left) - AvlTree_getHeight(t, t.node[n].right)

\* parent->left = std::move(newRoot) / parent->right = std::move(newRoot):
\* the slot takes nr and the subtree it held before is destroyed
AvlAssign(t, s, nr) ==
    IF t.fault THEN t
    ELSE IF ~SlotOk(t, s) THEN Faulted(t)
    ELSE LET old == Get(t, s)
         IN Destroy(Put(t, s, nr), old, AvlDead)

AvlTree_rotateRight(t, s) ==
    IF t.fault THEN t
    ELSE IF ~SlotOk(t, s) \/ ~Live(t, Get(t, s)) THEN Faulted(t)
    ELSE
    LET o == Get(t, s)
        nr == t.node[o].left                  \* newRoot(std::move(oldRoot->left))
        parent == t.node[o].parent
    IN IF ~Live(t, nr) THEN Faulted(t)        \* newRoot->right on nullptr
       ELSE
       LET moved == t.node[nr].right
           t1 == [t EXCEPT !.node[o].left = moved,     \* oldRoot->left = std::move(newRoot->right)
                           !.node[nr].right = Null]
           t2 == [t1 EXCEPT !.node[o].parent = nr]
           t3 == [Put(t2, s, Null) EXCEPT !.node[nr].right = o]  \* newRoot->right = std::move(oldRoot)
           t4 == [t3 EXCEPT !.node[nr].parent = parent]
           t5 == AvlTree_updateHeight(t4, t4.node[nr].right)
           t6 == AvlTree_updateHeight(t5, nr)
       IN IF t6.fault THEN t6
          ELSE IF parent # Null
               THEN IF ~Live(t6, parent) THEN Faulted(t6)
                    ELSE AvlAssign(t6, LeftSlot(parent), nr)
               ELSE AvlAssign(t6, s, nr)

AvlTree_rotateLeft(t, s) ==
    IF t.fault THEN t
    ELSE IF ~SlotOk(t, s) \/ ~Live(t, Get(t, s)) THEN Faulted(t)
    ELSE
    LET o == Get(t, s)
        nr == t.node[o].right                 \* newRoot(std::move(oldRoot->right))
        parent == t.node[o].parent
    IN IF ~Live(t, nr) THEN Faulted(t)        \* newRoot->left on nullptr
       ELSE
       LET moved == t.node[nr].left
           t1 == [t EXCEPT !.node[o].right = moved,    \* oldRoot->right = std::move(newRoot->left)
                           !.node[nr].left = Null]
           t2 == [t1 EXCEPT !.node[o].parent = nr]
           t3 == [Put(t2, s, Null) EXCEPT !.node[nr].left = o]   \* newRoot->left = std::move(oldRoot)
           t4 == [t3 EXCEPT !.node[nr].parent = parent]
           t5 == AvlTree_updateHeight(t4, t4.node[nr].left)
           t6 == AvlTree_updateHeight(t5, nr)
       IN IF t6.fault THEN t6
          ELSE IF parent # Null
               THEN IF ~Live(t6, parent) THEN Faulted(t6)
                    ELSE AvlAssign(t6, RightSlot(parent), nr)
               ELSE AvlAssign(t6, s, nr)

AvlTree_rotate(t, s) ==
    IF t.fault THEN t
    ELSE IF ~SlotOk(t, s) THEN Faulted(t)
    ELSE
    LET n == Get(t, s)
        balanceFactor == AvlTree_getBalanceFactor(t, n)
    IN IF balanceFactor > 1
       THEN LET t1 == IF AvlTree_getBalanceFactor(t, t.node[n].left) < 0
                      THEN AvlTree_rotateLeft(t, LeftSlot(n))
                      ELSE t
            IN AvlTree_rotateRight(t1, s)
       ELSE IF balanceFactor < -1
       THEN LET t1 == IF AvlTree_getBalanceFactor(t, t.node[n].right) > 0
                      THEN AvlTree_rotateRight(t, RightSlot(n))
                      ELSE t
            IN AvlTree_rotateLeft(t1, s)
       ELSE t

\* updateHeight(root.get()); rotate(root);  on the way back up
AvlRebalance(t, s) ==
    IF t.fault THEN t
    ELSE IF ~SlotOk(t, s) THEN Faulted(t)
    ELSE AvlTree_rotate(AvlTree_updateHeight(t, Get(t, s)), s)

RECURSIVE AvlTree_insertHelper(_, _, _, _, _)
AvlTree_insertHelper(t, key, value, s, parent) ==
    IF t.fault \/ ~SlotOk(t, s) THEN [t |-> Faulted(t), it |-> Null, ok |-> FALSE]
    ELSE
    LET cur == Get(t, s) IN
    IF cur = Null
    THEN LET n == NewAddr(t)
         IN [t |-> Put([t EXCEPT !.node[n] = AvlNode(key, value, parent)], s, n),
             it |-> n, ok |-> TRUE]
    ELSE IF ~Compare(key, t.node[cur].key) /\ ~Compare(t.node[cur].key, key)
    THEN [t |-> t, it |-> cur, ok |-> FALSE]
    ELSE LET left == Compare(key, t.node[cur].key)
             r == AvlTree_insertHelper(t, key, value,
                      IF left THEN LeftSlot(cur) ELSE RightSlot(cur), cur)
         IN [r EXCEPT !.t = AvlRebalance(r.t, s)]

AvlTree_insert(t, key, value) == AvlTree_insertHelper(t, key, value, RootSlot, Null)

\* while(tmp->left) tmp = tmp->left.get();
RECURSIVE Leftmost(_, _)
Leftmost(t, n) == IF t.node[n].left = Null THEN n ELSE Leftmost(t, t.node[n].left)

\* the branch of eraseHelper that removes the node held by slot s when it
\* has at most one child
AvlErasePromote(t, s) ==
    LET cur == Get(t, s)
        parent == t.node[cur].parent
        fromLeft == t.node[cur].left # Null
        promoted == IF fromLeft THEN t.node[cur].left ELSE t.node[cur].right
        t1 == IF fromLeft THEN [t EXCEPT !.node[cur].left = Null]
              ELSE [t EXCEPT !.node[cur].right = Null]
    IN IF promoted = Null
       THEN AvlAssign(t1, s, Null)                         \* root.reset()
       ELSE LET t2 == [t1 EXCEPT !.node[promoted].parent = parent]
            IN IF parent # Null
               THEN IF ~Live(t2, parent) THEN Faulted(t2)
                    ELSE IF t2.node[parent].left = Get(t2, s)
                    THEN AvlAssign(t2, LeftSlot(parent), promoted)
                    ELSE IF t2.node[parent].right # Get(t2, s)
                    THEN Faulted(t2)                       \* assert(parent->right == root)
                    ELSE AvlAssign(t2, RightSlot(parent), promoted)
               ELSE AvlAssign(t2, s, promoted)

RECURSIVE AvlTree_eraseHelper(_, _, _)
AvlTree_eraseHelper(t, key, s) ==
    IF t.fault \/ ~SlotOk(t, s) THEN [t |-> Faulted(t), ok |-> FALSE]
    ELSE
    LET cur == Get(t, s) IN
    IF cur = Null THEN [t |-> t, ok |-> FALSE]
    ELSE IF Compare(key, t.node[cur].key)
    THEN LET r == AvlTree_eraseHelper(t, key, LeftSlot(cur))
         IN [r EXCEPT !.t = AvlRebalance(r.t, s)]
    ELSE IF Compare(t.node[cur].key, key)
    THEN LET r == AvlTree_eraseHelper(t, key, RightSlot(cur))
         IN [r EXCEPT !.t = AvlRebalance(r.t, s)]
    ELSE IF t.node[cur].left = Null \/ t.node[cur].right = Null
    THEN [t |-> AvlErasePromote(t, s), ok |-> TRUE]
    ELSE LET tmp == Leftmost(t, t.node[cur].right)
             t1 == [t EXCEPT !.node[cur].key = t.node[tmp].key,    \* root->value = tmp->value
                             !.node[cur].val = t.node[tmp].val]
             r == AvlTree_eraseHelper(t1, t1.node[tmp].key, RightSlot(cur))
         IN [t |-> AvlRebalance(r.t, s), ok |-> TRUE]

AvlTree_erase(t, key) == AvlTree_eraseHelper(t, key, RootSlot)

\* ---- observers shared by both trees -------------------------------------
\* nodes owned, directly or transitively, by the slot's pointer n
RECURSIVE Owned(_, _)
Owned(t, n) ==
    IF n = Null THEN {}
    ELSE {n} \cup Owned(t, t.node[n].left) \cup Owned(t, t.node[n].right)

\* keys in structural (left, node, right) order under n
RECURSIVE InOrder(_, _)
InOrder(t, n) ==
    IF n = Null THEN <<>>
    ELSE InOrder(t, t.node[n].left) \o <<t.node[n].key>> \o InOrder(t, t.node[n].right)

StoredKeys(t) == {t.node[n].key : n \in Owned(t, t.root)}

beginHelper(t) == IF t.root = Null THEN Null ELSE Leftmost(t, t.root)

\* the climbing loop of Iterator::operator++
RECURSIVE Climb(_, _, _)
Climb(t, n, fuel) ==
    IF ~Live(t, n) \/ fuel = 0 THEN Bad
    ELSE LET parent == t.node[n].parent
         IN IF parent = Null THEN Null
            ELSE IF ~Live(t, parent) THEN Bad
            ELSE IF n = t.node[parent].left THEN parent
            ELSE Climb(t, parent, fuel - 1)

\* Iterator::operator++
Iterator_next(t, n) ==
    IF ~Live(t, n) THEN Bad
    ELSE IF t.node[n].right # Null THEN Leftmost(t, t.node[n].right)
    ELSE Climb(t, n, MaxNodes + 1)

\* the keys seen by  for(it = begin(); it != end(); ++it);  ok is FALSE when
\* the loop dereferences a destroyed node or does not end within fuel steps
RECURSIVE IterFrom(_, _, _)
IterFrom(t, n, fuel) ==
    IF n = Null THEN [keys |-> <<>>, ok |-> TRUE]
    ELSE IF n = Bad \/ fuel = 0 THEN [keys |-> <<>>, ok |-> FALSE]
    ELSE LET rest == IterFrom(t, Iterator_next(t, n), fuel - 1)
         IN [keys |-> <<t.node[n].key>> \o rest.keys, ok |-> rest.ok]

Iterate(t) == IterFrom(t, beginHelper(t), 2 * MaxNodes)

StrictlyIncreasing(q) == \A i \in 1..(Len(q) - 1) : Compare(q[i], q[i + 1])

SeqSet(q) == {q[i] : i \in 1..Len(q)}

\* the keys a scripted run inserts, in order, before it starts erasing
Script == <<1, 2, 8, 7, 5, 2, 1, 4, 3, 5, 6>>
ScriptKeys == SeqSet(Script)

\* ---- addresses are opaque -----------------------------------------------
\* The code never orders or hashes addresses, so two arenas that differ only
\* by a renaming of addresses are the same program state.  After each call
\* the live nodes are renumbered 1, 2, ... in pre-order from the root (nodes
\* no longer owned from the root follow in address order).
RECURSIVE PreOrder(_, _)
PreOrder(t, n) ==
    IF n = Null THEN <<>>
    ELSE <<n>> \o PreOrder(t, t.node[n].left) \o PreOrder(t, t.node[n].right)

RECURSIVE Ascending(_)
Ascending(S) ==
    IF S = {} THEN <<>>
    ELSE LET m == CHOOSE x \in S : \A y \in S : x <= y
         IN <<m>> \o Ascending(S \ {m})

AddrOrder(t) ==
    PreOrder(t, t.root)
        \o Ascending({n \in NodeIds : t.node[n].alive} \ Owned(t, t.root))

\* the renaming: old address -> new address (Bad for a destroyed node)
Renaming(t) ==
    LET order == AddrOrder(t)
    IN [n \in NodeIds |->
            IF t.node[n].alive THEN CHOOSE i \in 1..Len(order) : order[i] = n
            ELSE Bad]

Rename(f, p) == IF p \in NodeIds THEN f[p] ELSE p

Canon(t, dead) ==
    LET order == AddrOrder(t)
        f == Renaming(t)
    IN [t EXCEPT !.root = Rename(f, t.root),
                 !.node = [i \in NodeIds |->
                     IF i <= Len(order)
                     THEN [t.node[order[i]] EXCEPT !.parent = Rename(f, @),
                                                   !.left = Rename(f, @),
                                                   !.right = Rename(f, @)]
                     ELSE dead]]

\* ---- RedBlackTree -------------------------------------------------------
RbtDead == [alive |-> FALSE, key |-> 0, val |-> 0, parent |-> Null,
            red |-> FALSE, left |-> Null, right |-> Null]

RbtNode(k, v, p) == [alive |-> TRUE, key |-> k, val |-> v, parent |-> p,
                     red |-> FALSE, left |-> Null, right |-> Null]

RbtEmpty == [node |-> [n \in NodeIds |-> RbtDead], root |-> Null,
             numElems |-> 0, fault |-> FALSE]

\* slot = std::move(p): the slot takes p and what it held before is destroyed
RbtAssign(t, s, p) ==
    IF t.fault THEN t
    ELSE IF ~SlotOk(t, s) THEN Faulted(t)
    ELSE LET old == Get(t, s)
         IN Destroy(Put(t, s, p), old, RbtDead)

RedBlackTree_rotateRight(t, s) ==
    IF t.fault THEN t
    ELSE IF ~SlotOk(t, s) \/ ~Live(t, Get(t, s)) THEN Faulted(t)
    ELSE
    LET o == Get(t, s)
        nr == t.node[o].left
        parent == t.node[o].parent
    IN IF ~Live(t, nr) THEN Faulted(t)
       ELSE
       LET moved == t.node[nr].right
           t1 == [t EXCEPT !.node[o].left = moved, !.node[nr].right = Null]
           t2 == [t1 EXCEPT !.node[o].parent = nr]
           t3 == [Put(t2, s, Null) EXCEPT !.node[nr].right = o]
           t4 == [t3 EXCEPT !.node[nr].parent = parent]
       IN RbtAssign(t4, s, nr)                 \* oldRoot = std::move(newRoot)

\* rotateLeft without  newRoot->parent = parent
RedBlackTree_rotateLeft_keepParent(t, s) ==
    IF t.fault THEN t
    ELSE IF ~SlotOk(t, s) \/ ~Live(t, Get(t, s)) THEN Faulted(t)
    ELSE
    LET o == Get(t, s)
        nr == t.node[o].right
    IN IF ~Live(t, nr) THEN Faulted(t)
       ELSE
       LET moved == t.node[nr].left
           t1 == [t EXCEPT !.node[o].right = moved, !.node[nr].left = Null]
           t2 == [t1 EXCEPT !.node[o].parent = nr]
           t3 == [Put(t2, s, Null) EXCEPT !.node[nr].left = o]
       IN RbtAssign(t3, s, nr)

RedBlackTree_rotateLeft(t, s) ==
    IF t.fault THEN t
    ELSE IF ~SlotOk(t, s) \/ ~Live(t, Get(t, s)) THEN Faulted(t)
    ELSE
    LET o == Get(t, s)
        nr == t.node[o].right
        parent == t.node[o].parent
    IN IF ~Live(t, nr) THEN Faulted(t)
       ELSE
       LET moved == t.node[nr].left
           t1 == [t EXCEPT !.node[o].right = moved, !.node[nr].left = Null]
           t2 == [t1 EXCEPT !.node[o].parent = nr]
           t3 == [Put(t2, s, Null) EXCEPT !.node[nr].left = o]
           t4 == [t3 EXCEPT !.node[nr].parent = parent]
       IN RbtAssign(t4, s, nr)                 \* oldRoot = std::move(newRoot)

\* node->red = false  on the node the slot holds now
\* rotate without  node->red = false  after the rotation
RbtBlacken_keepRed(t, s) ==
    IF t.fault THEN t
    ELSE IF ~SlotOk(t, s) \/ ~Live(t, Get(t, s)) THEN Faulted(t)
    ELSE t

RbtBlacken(t, s) ==
    IF t.fault THEN t
    ELSE IF ~SlotOk(t, s) \/ ~Live(t, Get(t, s)) THEN Faulted(t)
    ELSE [t EXCEPT !.node[Get(t, s)].red = FALSE]

RedBlackTree_rotate(t, s) ==
    IF t.fault THEN t
    ELSE IF ~SlotOk(t, s) \/ ~Live(t, Get(t, s)) THEN Faulted(t)
    ELSE IF ~t.node[Get(t, s)].red THEN t
    ELSE
    LET n == Get(t, s)
        t1 == IF t.node[n].left # Null /\ t.node[t.node[n].left].red
                 /\ t.node[n].right = Null
              THEN RbtBlacken(RedBlackTree_rotateRight(t, s), s)
              ELSE t
    IN IF t1.fault THEN t1
       ELSE LET m == Get(t1, s)
            IN IF t1.node[m].right # Null /\ t1.node[t1.node[m].right].red
                  /\ t1.node[m].left = Null
               THEN RbtBlacken(RedBlackTree_rotateLeft(t1, s), s)
               ELSE t1

RECURSIVE RedBlackTree_insertHelper(_, _, _, _, _)
RedBlackTree_insertHelper(t, key, value, s, parent) ==
    IF t.fault \/ ~SlotOk(t, s) THEN [t |-> Faulted(t), it |-> Null, ok |-> FALSE]
    ELSE
    LET cur == Get(t, s) IN
    IF cur = Null
    THEN LET n == NewAddr(t)
             fresh == [RbtNode(key, value, parent) EXCEPT !.red = (parent # Null)]
         IN [t |-> Put([t EXCEPT !.numElems = @ + 1, !.node[n] = fresh], s, n),
             it |-> n, ok |-> TRUE]
    ELSE IF ~Compare(key, t.node[cur].key) /\ ~Compare(t.node[cur].key, key)
    THEN [t |-> t, it |-> cur, ok |-> FALSE]
    ELSE LET left == Compare(key, t.node[cur].key)
             r == RedBlackTree_insertHelper(t, key, value,
                      IF left THEN LeftSlot(cur) ELSE RightSlot(cur), cur)
         IN [r EXCEPT !.t = RedBlackTree_rotate(r.t, s)]

RedBlackTree_insert(t, key, value) ==
    RedBlackTree_insertHelper(t, key, value, RootSlot, Null)

\* the removal branch without  --numElems
RbtErasePromote_noCount(t, s) ==
    LET cur == Get(t, s)
        fromLeft == t.node[cur].left # Null
        promoted == IF fromLeft THEN t.node[cur].left ELSE t.node[cur].right
        t1 == IF fromLeft THEN [t EXCEPT !.node[cur].left = Null]
              ELSE [t EXCEPT !.node[cur].right = Null]
    IN IF promoted = Null
       THEN RbtAssign(t1, s, Null)
       ELSE RbtAssign([t1 EXCEPT !.node[promoted].parent = t1.node[cur].parent],
                      s, promoted)

\* the removal branch that promotes the right child even when there is a
\* left one
RbtErasePromote_rightOnly(t, s) ==
    LET cur == Get(t, s)
        promoted == t.node[cur].right
        t1 == [t EXCEPT !.node[cur].right = Null]
        t2 == IF promoted = Null
              THEN RbtAssign(t1, s, Null)
              ELSE RbtAssign([t1 EXCEPT !.node[promoted].parent = t1.node[cur].parent],
                             s, promoted)
    IN [t2 EXCEPT !.numElems = @ - 1]

\* the branch of eraseHelper that removes the node held by slot s when it
\* has at most one child
RbtErasePromote(t, s) ==
    LET cur == Get(t, s)
        fromLeft == t.node[cur].left # Null
        promoted == IF fromLeft THEN t.node[cur].left ELSE t.node[cur].right
        t1 == IF fromLeft THEN [t EXCEPT !.node[cur].left = Null]
              ELSE [t EXCEPT !.node[cur].right = Null]
        t2 == IF promoted = Null
              THEN RbtAssign(t1, s, Null)                  \* root.reset()
              ELSE RbtAssign([t1 EXCEPT !.node[promoted].parent = t1.node[cur].parent],
                             s, promoted)
    IN [t2 EXCEPT !.numElems = @ - 1]

RECURSIVE RedBlackTree_eraseHelper(_, _, _)
RedBlackTree_eraseHelper(t, key, s) ==
    IF t.fault \/ ~SlotOk(t, s) THEN [t |-> Faulted(t), ok |-> FALSE]
    ELSE
    LET cur == Get(t, s) IN
    IF cur = Null THEN [t |-> t, ok |-> FALSE]
    ELSE IF Compare(key, t.node[cur].key)
    THEN LET r == RedBlackTree_eraseHelper(t, key, LeftSlot(cur))
         IN [r EXCEPT !.t = RedBlackTree_rotate(r.t, s)]
    ELSE IF Compare(t.node[cur].key, key)
    THEN LET r == RedBlackTree_eraseHelper(t, key, RightSlot(cur))
         IN [r EXCEPT !.t = RedBlackTree_rotate(r.t, s)]
    ELSE IF t.node[cur].left = Null \/ t.node[cur].right = Null
    THEN [t |-> RbtErasePromote(t, s), ok |-> TRUE]
    ELSE LET tmp == Leftmost(t, t.node[cur].right)
             t1 == [t EXCEPT !.node[cur].key = t.node[tmp].key,
                             !.node[cur].val = t.node[tmp].val]
             r == RedBlackTree_eraseHelper(t1, t1.node[tmp].key, RightSlot(cur))
         IN [t |-> RedBlackTree_rotate(r.t, s), ok |-> TRUE]

RedBlackTree_erase(t, key) == RedBlackTree_eraseHelper(t, key, RootSlot)

\* findHelper that stops at the first node whose key is not greater
RECURSIVE findHelper_noLeft(_, _, _)
findHelper_noLeft(t, key, n) ==
    IF n = Null THEN Null
    ELSE IF Compare(t.node[n].key, key) THEN findHelper_noLeft(t, key, t.node[n].right)
    ELSE n

RECURSIVE findHelper(_, _, _)
findHelper(t, key, n) ==
    IF n = Null THEN Null
    ELSE IF Compare(key, t.node[n].key) THEN findHelper(t, key, t.node[n].left)
    ELSE IF Compare(t.node[n].key, key) THEN findHelper(t, key, t.node[n].right)
    ELSE n

RedBlackTree_find(t, key) == findHelper(t, key, t.root)

RedBlackTree_empty(t) == t.root = Null

RedBlackTree_size(t) == t.numElems

RedBlackTree_clear(t) == [RbtAssign(t, RootSlot, Null) EXCEPT !.numElems = 0]

\* ---- heap algorithms (Algorithm.hpp) and Heap ---------------------------
\* index i of the C++ range is element i + 1 of the sequence
At(q, i) == q[i + 1]

Swap(q, i, j) == [q EXCEPT ![i + 1] = q[j + 1], ![j + 1] = q[i + 1]]

\* Compare of the Heap: std::less ("less") or std::greater ("greater")
Cmp(c, a, b) == IF c = "less" THEN a < b ELSE a > b

\* push_heap loop that gives up after the first swap
PushLoop_once(q, last, c) ==
    IF last = 0 THEN q
    ELSE LET distance == last - 1 IN
         IF distance = 0 THEN q
         ELSE LET parentPos == (distance - 1) \div 2 IN
              IF Cmp(c, At(q, distance), At(q, parentPos)) THEN q
              ELSE Swap(q, parentPos, distance)

\* the while loop of push_heap; last is std::distance(first, last)
RECURSIVE PushLoop(_, _, _)
PushLoop(q, last, c) ==
    IF last = 0 THEN q
    ELSE LET distance == last - 1 IN
         IF distance = 0 THEN q
         ELSE LET parentPos == (distance - 1) \div 2 IN
              IF Cmp(c, At(q, distance), At(q, parentPos)) THEN q
              ELSE PushLoop(Swap(q, parentPos, distance), parentPos + 1, c)

push_heap(q, c) == PushLoop(q, Len(q), c)

\* the index at which the while loop of push_heap leaves the element that
\* was last: the value of distance when the loop breaks
RECURSIVE PushStop(_, _, _)
PushStop(q, last, c) ==
    IF last = 0 THEN 0
    ELSE LET distance == last - 1 IN
         IF distance = 0 THEN 0
         ELSE LET parentPos == (distance - 1) \div 2 IN
              IF Cmp(c, At(q, distance), At(q, parentPos)) THEN distance
              ELSE PushStop(Swap(q, parentPos, distance), parentPos + 1, c)

\* sift-down that never looks at the right child
RECURSIVE SiftDown_leftOnly(_, _, _, _, _)
SiftDown_leftOnly(q, parentIdx, childIdx, numElems, c) ==
    IF ~(childIdx < numElems) THEN q
    ELSE IF Cmp(c, At(q, childIdx), At(q, parentIdx)) THEN q
    ELSE SiftDown_leftOnly(Swap(q, parentIdx, childIdx), childIdx, (childIdx * 2) + 1,
                           numElems, c)

\* the sift-down for loop shared by pop_heap and make_heap over the first
\* numElems elements
RECURSIVE SiftDown(_, _, _, _, _)
SiftDown(q, parentIdx, childIdx, numElems, c) ==
    IF ~(childIdx < numElems) THEN q
    ELSE LET child == IF childIdx + 1 # numElems
                         /\ Cmp(c, At(q, childIdx), At(q, childIdx + 1))
                      THEN childIdx + 1 ELSE childIdx
         IN IF Cmp(c, At(q, child), At(q, parentIdx)) THEN q
            ELSE SiftDown(Swap(q, parentIdx, child), child, (child * 2) + 1, numElems, c)

\* pop_heap without the initial  std::swap(*first, *(--last))
pop_heap_noSwap(q, c) ==
    IF Len(q) = 0 THEN q
    ELSE SiftDown(q, 0, 1, Len(q) - 1, c)

\* pop_heap that sifts down over the whole range, the displaced element
\* included
pop_heap_wholeRange(q, c) ==
    IF Len(q) = 0 THEN q
    ELSE SiftDown(Swap(q, 0, Len(q) - 1), 0, 1, Len(q), c)

pop_heap(q, c) ==
    IF Len(q) = 0 THEN q
    ELSE SiftDown(Swap(q, 0, Len(q) - 1), 0, 1, Len(q) - 1, c)

RECURSIVE MakeLoop(_, _, _)
MakeLoop(q, i, c) ==
    IF i < 0 THEN q
    ELSE MakeLoop(SiftDown(q, i, (i * 2) + 1, Len(q), c), i - 1, c)

\* make_heap that sifts down the root only
make_heap_rootOnly(q, c) ==
    IF Len(q) <= 1 THEN q
    ELSE SiftDown(q, 0, 1, Len(q), c)

make_heap(q, c) ==
    IF Len(q) <= 1 THEN q
    ELSE MakeLoop(q, (Len(q) - 2) \div 2, c)

Heap_push(q, c, value) == push_heap(Append(q, value), c)

Heap_pop(q, c) == SubSeq(pop_heap(q, c), 1, Len(q) - 1)

Heap_top(q) == q[1]

\* sequences over 1..MaxElem of length at most n
RECURSIVE SeqsUpTo(_)
SeqsUpTo(n) ==
    IF n = 0 THEN {<<>>}
    ELSE LET shorter == SeqsUpTo(n - 1)
         IN shorter \cup {Append(q, e) : q \in {x \in shorter : Len(x) = n - 1}, e \in 1..MaxElem}

\* ---- state machine ------------------------------------------------------
NoRet == [op |-> "none", key |-> 0, val |-> 0, ok |-> FALSE, it |-> Null]

NoRef == [k \in Keys \cup InsKeys \cup ScriptKeys |-> 0]

InitBase ==
    /\ avl = AvlEmpty
    /\ rbt = RbtEmpty
    /\ storage = <<>>
    /\ comp = "less"
    /\ ret = NoRet
    /\ ref = NoRef
    /\ net = 0
    /\ log = <<>>
    /\ out = <<>>

\* the map the calls made so far should have produced: first insert of a
\* key wins, erase removes
RefInsert(k, v) == IF ref[k] = 0 THEN [ref EXCEPT ![k] = v] ELSE ref
RefErase(k) == [ref EXCEPT ![k] = 0]

AvlInsertOp(k, v) ==
    /\ sut = "avl"
    /\ ~avl.fault
    /\ FreeIds(avl) # {}
    /\ LET r == AvlTree_insert(avl, k, v)
       IN /\ avl' = Canon(r.t, AvlDead)
          /\ ret' = [op |-> "insert", key |-> k, val |-> v, ok |-> r.ok /\ ~r.t.fault,
                     it |-> IF r.t.fault THEN Null ELSE Rename(Renaming(r.t), r.it)]
    /\ ref' = RefInsert(k, v)
    /\ UNCHANGED <<sut, rbt, storage, comp, net, out>>

AvlInsert(k, v) == AvlInsertOp(k, v) /\ UNCHANGED log

\* insert in a run that records the order of the keys inserted
AvlInsertLogged(k, v) ==
    /\ Len(log) < MaxOps
    /\ AvlInsertOp(k, v)
    /\ log' = Append(log, k)

AvlErase(k) ==
    /\ sut = "avl"
    /\ ~avl.fault
    /\ LET r == AvlTree_erase(avl, k)
       IN /\ avl' = Canon(r.t, AvlDead)
          /\ ret' = [op |-> "erase", key |-> k, val |-> 0, ok |-> r.ok /\ ~r.t.fault,
                     it |-> Null]
    /\ ref' = RefErase(k)
    /\ UNCHANGED <<sut, rbt, storage, comp, net, log, out>>

RbtInsert(k, v) ==
    /\ sut = "rbt"
    /\ ~rbt.fault
    /\ FreeIds(rbt) # {}
    /\ LET r == RedBlackTree_insert(rbt, k, v)
       IN /\ rbt' = Canon(r.t, RbtDead)
          /\ ret' = [op |-> "insert", key |-> k, val |-> v, ok |-> r.ok /\ ~r.t.fault,
                     it |-> IF r.t.fault THEN Null ELSE Rename(Renaming(r.t), r.it)]
          /\ net' = IF r.ok THEN net + 1 ELSE net
    /\ ref' = RefInsert(k, v)
    /\ UNCHANGED <<sut, avl, storage, comp, log, out>>

RbtErase(k) ==
    /\ sut = "rbt"
    /\ ~rbt.fault
    /\ LET r == RedBlackTree_erase(rbt, k)
       IN /\ rbt' = Canon(r.t, RbtDead)
          /\ ret' = [op |-> "erase", key |-> k, val |-> 0, ok |-> r.ok /\ ~r.t.fault,
                     it |-> Null]
          /\ net' = IF r.ok THEN net - 1 ELSE net
    /\ ref' = RefErase(k)
    /\ UNCHANGED <<sut, avl, storage, comp, log, out>>

RbtClear ==
    /\ sut = "rbt"
    /\ ~rbt.fault
    /\ rbt' = RedBlackTree_clear(rbt)
    /\ ret' = [NoRet EXCEPT !.op = "clear"]
    /\ net' = 0
    /\ ref' = NoRef
    /\ UNCHANGED <<sut, avl, storage, comp, log, out>>

\* Heap(first, last, cmp) / Heap(cmp, cont): a heap built from a range
HeapConstruct(q, c) ==
    /\ sut = "heap"
    /\ storage' = make_heap(q, c)
    /\ comp' = c
    /\ ret' = [NoRet EXCEPT !.op = "construct"]
    /\ UNCHANGED <<sut, avl, rbt, ref, net, log, out>>

HeapPush(value) ==
    /\ sut = "heap"
    /\ Len(storage) < MaxLen
    /\ storage' = Heap_push(storage, comp, value)
    /\ ret' = [NoRet EXCEPT !.op = "push", !.val = value]
    /\ UNCHANGED <<sut, avl, rbt, comp, ref, net, log, out>>

HeapPop ==
    /\ sut = "heap"
    /\ Len(storage) > 0
    /\ storage' = Heap_pop(storage, comp)
    /\ ret' = [NoRet EXCEPT !.op = "pop", !.val = Heap_top(storage)]
    /\ UNCHANGED <<sut, avl, rbt, comp, ref, net, log, out>>

InitAvl == sut = "avl" /\ InitBase
NextAvl ==
    \/ \E k \in Keys, v \in Vals : AvlInsert(k, v)
    \/ \E k \in Keys : AvlErase(k)
SpecAvl == InitAvl /\ [][NextAvl]_vars

\* runs that only insert
NextAvlInserts == \E k \in InsKeys, v \in Vals : AvlInsert(k, v)
SpecAvlInserts == InitAvl /\ [][NextAvlInserts]_vars

\* runs of at most MaxOps inserts that record the order of the keys
NextAvlOrder == \E k \in InsKeys, v \in Vals : AvlInsertLogged(k, v)
SpecAvlOrder == InitAvl /\ [][NextAvlOrder]_vars

\* runs that insert the keys of Script and then erase
AvlScriptInsert ==
    /\ Len(log) < Len(Script)
    /\ \E v \in Vals : AvlInsertOp(Script[Len(log) + 1], v)
    /\ log' = Append(log, Script[Len(log) + 1])

AvlScriptErase(k) ==
    /\ Len(log) = Len(Script)
    /\ AvlErase(k)

NextAvlScript ==
    \/ AvlScriptInsert
    \/ \E k \in ScriptKeys : AvlScriptErase(k)
SpecAvlScript == InitAvl /\ [][NextAvlScript]_vars

InitRbt == sut = "rbt" /\ InitBase
NextRbt ==
    \/ \E k \in Keys, v \in Vals : RbtInsert(k, v)
    \/ \E k \in Keys : RbtErase(k)
    \/ RbtClear
SpecRbt == InitRbt /\ [][NextRbt]_vars

InitTrees == sut \in {"avl", "rbt"} /\ InitBase
NextTrees == NextAvl \/ NextRbt
SpecTrees == InitTrees /\ [][NextTrees]_vars

InitHeap ==
    /\ sut = "heap"
    /\ avl = AvlEmpty
    /\ rbt = RbtEmpty
    /\ storage = <<>>
    /\ comp \in {"less", "greater"}
    /\ ret = NoRet
    /\ ref = NoRef
    /\ net = 0
    /\ log = <<>>
    /\ out = <<>>
NextHeap ==
    \/ \E q \in SeqsUpTo(MaxLen), c \in {"less", "greater"} : HeapConstruct(q, c)
    \/ \E value \in 1..MaxElem : HeapPush(value)
    \/ HeapPop
SpecHeap == InitHeap /\ [][NextHeap]_vars

\* runs that push into an empty Heap and then drain it with top() and pop():
\* log records the values pushed, out the values top() returned
HeapSortPush(value) ==
    /\ sut = "heap"
    /\ out = <<>>
    /\ Len(storage) < MaxLen
    /\ storage' = Heap_push(storage, comp, value)
    /\ ret' = [NoRet EXCEPT !.op = "push", !.val = value]
    /\ log' = Append(log, value)
    /\ UNCHANGED <<sut, avl, rbt, comp, ref, net, out>>

HeapSortPop ==
    /\ sut = "heap"
    /\ Len(storage) > 0
    /\ out' = Append(out, Heap_top(storage))
    /\ storage' = Heap_pop(storage, comp)
    /\ ret' = [NoRet EXCEPT !.op = "pop", !.val = Heap_top(storage)]
    /\ UNCHANGED <<sut, avl, rbt, comp, ref, net, log>>

NextHeapSort ==
    \/ \E value \in 1..MaxElem : HeapSortPush(value)
    \/ HeapSortPop
SpecHeapSort == InitHeap /\ [][NextHeapSort]_vars

\* runs that construct a Heap from a range; log records the range
HeapConstructLogged(q, c) ==
    /\ sut = "heap"
    /\ storage' = make_heap(q, c)
    /\ comp' = c
    /\ ret' = [NoRet EXCEPT !.op = "construct"]
    /\ log' = q
    /\ UNCHANGED <<sut, avl, rbt, ref, net, out>>

NextHeapConstruct ==
    \E q \in SeqsUpTo(MaxLen), c \in {"less", "greater"} : HeapConstructLogged(q, c)
SpecHeapConstruct == InitHeap /\ [][NextHeapConstruct]_vars

\* runs that insert keys of 1..MaxDistinct, each key at most once
AvlInsertFresh(k) ==
    /\ ref[k] = 0
    /\ AvlInsert(k, 1)

NextAvlFresh == \E k \in 1..MaxDistinct : AvlInsertFresh(k)
SpecAvlFresh == InitAvl /\ [][NextAvlFresh]_vars

\* the slot that holds node n: the root handle or a child member of the
\* node that owns n
SlotOf(t, n) ==
    IF t.root = n THEN RootSlot
    ELSE LET p == CHOOSE q \in Owned(t, t.root) :
                      t.node[q].left = n \/ t.node[q].right = n
         IN IF t.node[p].left = n THEN LeftSlot(p) ELSE RightSlot(p)

\* runs that build a tree with inserts and then call rotateRight or
\* rotateLeft once on the slot of a node n that has the child to promote;
\* addresses are kept as they are across the rotation
AvlRotInsert(k, v) ==
    /\ ret.op \notin {"rotateRight", "rotateLeft"}
    /\ AvlInsert(k, v)

AvlRotateRight(n) ==
    /\ sut = "avl"
    /\ ~avl.fault
    /\ ret.op \notin {"rotateRight", "rotateLeft"}
    /\ n \in Owned(avl, avl.root)
    /\ avl.node[n].left # Null
    /\ avl' = AvlTree_rotateRight(avl, SlotOf(avl, n))
    /\ ret' = [NoRet EXCEPT !.op = "rotateRight", !.it = n]
    /\ UNCHANGED <<sut, rbt, storage, comp, ref, net, log, out>>

AvlRotateLeft(n) ==
    /\ sut = "avl"
    /\ ~avl.fault
    /\ ret.op \notin {"rotateRight", "rotateLeft"}
    /\ n \in Owned(avl, avl.root)
    /\ avl.node[n].right # Null
    /\ avl' = AvlTree_rotateLeft(avl, SlotOf(avl, n))
    /\ ret' = [NoRet EXCEPT !.op = "rotateLeft", !.it = n]
    /\ UNCHANGED <<sut, rbt, storage, comp, ref, net, log, out>>

NextAvlRotate ==
    \/ \E k \in Keys, v \in Vals : AvlRotInsert(k, v)
    \/ \E n \in NodeIds : AvlRotateRight(n)
    \/ \E n \in NodeIds : AvlRotateLeft(n)
SpecAvlRotate == InitAvl /\ [][NextAvlRotate]_vars

Init == InitTrees \/ InitHeap
Next == NextTrees \/ NextHeap
Spec == Init /\ [][Next]_vars

\* ---- claims -------------------------------------------------------------
\* the (key, value) pairs of the nodes owned from the root
Contents(t) == {<<t.node[n].key, t.node[n].val>> : n \in Owned(t, t.root)}

\* C1: after any sequence of AvlTree::insert calls on an empty tree that ran
\* to completion, iterating from begin() with operator++ until end() visits
\* every distinct inserted key exactly once, in strictly increasing order.
C1_InsertsIterateSorted ==
    ~avl.fault =>
        LET walk == Iterate(avl)
        IN /\ walk.ok
           /\ StrictlyIncreasing(walk.keys)
           /\ SeqSet(walk.keys) = {k \in DOMAIN ref : ref[k] # 0}

\* the four insertion orders of three distinct keys that trigger a rotation
RotationOrders ==
    UNION {{<<c, b, a>>, <<a, b, c>>, <<c, a, b>>, <<a, c, b>>} :
           <<a, b, c>> \in {x \in InsKeys \X InsKeys \X InsKeys : x[1] < x[2] /\ x[2] < x[3]}}

Sorted3(q) ==
    CHOOSE x \in InsKeys \X InsKeys \X InsKeys :
        x[1] < x[2] /\ x[2] < x[3] /\ SeqSet(x) = SeqSet(q)

\* C2: for each insertion order of three distinct keys that triggers a
\* rotation (descending, ascending, left-right, right-left) all three inserts
\* run to completion and in-order iteration yields the three keys ascending.
C2_RotationCases ==
    log \in RotationOrders =>
        /\ ~avl.fault
        /\ Iterate(avl) = [keys |-> Sorted3(log), ok |-> TRUE]

\* C3: AvlTree::erase(k) of a stored key k returns true and removes exactly
\* k: afterwards k is not reachable from the root, every other stored key is
\* still reachable with its value and in-order iteration is strictly
\* increasing.
C3_EraseStoredKey ==
    [][(ret'.op = "erase" /\ sut = "avl" /\ ret'.key \in StoredKeys(avl)) =>
        /\ ~avl'.fault
        /\ ret'.ok
        /\ Contents(avl') = {p \in Contents(avl) : p[1] # ret'.key}
        /\ Iterate(avl').ok
        /\ StrictlyIncreasing(Iterate(avl').keys)]_vars

\* insert reported a duplicate of key and left tree t as it was (u is the
\* tree after the call, it the iterator returned)
DuplicateRejected(t, u, key, ok, it) ==
    /\ ~u.fault
    /\ ~ok
    /\ Live(t, it) /\ t.node[it].key = key
    /\ u = t

\* C4: in AvlTree and RedBlackTree, insert(k, v2) when key k is already
\* stored returns inserted = false with an iterator to the existing element
\* and leaves the tree unchanged (value, keys, structure, element count).
C4_DuplicateInsert ==
    [][ret'.op = "insert" =>
        /\ (sut = "avl" /\ ret'.key \in StoredKeys(avl)) =>
                DuplicateRejected(avl, avl', ret'.key, ret'.ok, ret'.it)
        /\ (sut = "rbt" /\ ret'.key \in StoredKeys(rbt)) =>
                DuplicateRejected(rbt, rbt', ret'.key, ret'.ok, ret'.it)]_vars

\* erase reported that key is absent and left tree t as it was
AbsentRejected(t, u, ok) ==
    /\ ~u.fault
    /\ ~ok
    /\ u = t

\* C5: in AvlTree and RedBlackTree, erase(k) for a key k that is not stored
\* returns false and leaves the tree unchanged (keys, values, structure,
\* balance metadata, element count).
C5_EraseAbsent ==
    [][ret'.op = "erase" =>
        /\ (sut = "avl" /\ ret'.key \notin StoredKeys(avl)) =>
                AbsentRejected(avl, avl', ret'.ok)
        /\ (sut = "rbt" /\ ret'.key \notin StoredKeys(rbt)) =>
                AbsentRejected(rbt, rbt', ret'.ok)]_vars

\* the keys the calls made so far should have left in the tree
RefKeys == {k \in DOMAIN ref : ref[k] # 0}

\* C6: in RedBlackTree, immediately after insert(k, v) returned inserted =
\* true, find(k) returns an iterator equal to the one insert returned, and
\* that iterator refers to the element (k, v).
C6_FindAfterInsert ==
    (sut = "rbt" /\ ret.op = "insert" /\ ret.ok) =>
        /\ RedBlackTree_find(rbt, ret.key) = ret.it
        /\ Live(rbt, ret.it)
        /\ rbt.node[ret.it].key = ret.key
        /\ rbt.node[ret.it].val = ret.val

\* a successful insert below the root of a tree that has seen an erase
C6_Witness ==
    /\ sut = "rbt" /\ ret.op = "insert" /\ ret.ok
    /\ RedBlackTree_size(rbt) >= 3
    /\ ret.it # rbt.root
    /\ rbt.node[ret.it].left # Null
    /\ RedBlackTree_find(rbt, ret.key) = ret.it

\* C7: in RedBlackTree, after any sequence of insert, erase and clear calls,
\* size() equals the number of elements visited by in-order iteration from
\* begin() to end(), and equals the number of successful inserts minus the
\* number of successful erases since construction or the last clear().
C7_SizeCounts ==
    sut = "rbt" =>
        /\ Iterate(rbt).ok
        /\ RedBlackTree_size(rbt) = Len(Iterate(rbt).keys)
        /\ RedBlackTree_size(rbt) = net

\* a successful erase that leaves at least two elements
C7_Witness ==
    /\ sut = "rbt" /\ ret.op = "erase" /\ ret.ok
    /\ RedBlackTree_size(rbt) >= 2
    /\ Len(Iterate(rbt).keys) = RedBlackTree_size(rbt)

\* C8: in RedBlackTree, erasing every inserted key in any order: each erase
\* of a key that was inserted and not yet erased returns true and find of
\* that key returns end() afterwards; once every key is erased empty() is
\* true, size() is 0, begin() == end() and find(k) is end() for every key.
C8_EraseAll ==
    [][(sut = "rbt" /\ ret'.op = "erase" /\ ret'.key \in RefKeys) =>
        /\ ret'.ok
        /\ RedBlackTree_find(rbt', ret'.key) = Null
        /\ (\A k \in DOMAIN ref : ref'[k] = 0) =>
              /\ RedBlackTree_empty(rbt')
              /\ RedBlackTree_size(rbt') = 0
              /\ beginHelper(rbt') = Null
              /\ \A k \in Keys : RedBlackTree_find(rbt', k) = Null]_vars

\* the erase that removed the last key of a tree that held several
C8_Witness ==
    /\ sut = "rbt" /\ ret.op = "erase" /\ ret.ok
    /\ RefKeys = {}
    /\ RedBlackTree_empty(rbt)
    /\ net = 0

\* C9: in RedBlackTree, after any sequence of insert and erase calls,
\* iterating from begin() with operator++ until end() visits exactly the
\* currently stored keys, once each, in strictly increasing order.
C9_IterationSorted ==
    sut = "rbt" =>
        LET walk == Iterate(rbt)
        IN /\ ~rbt.fault
           /\ walk.ok
           /\ StrictlyIncreasing(walk.keys)
           /\ SeqSet(walk.keys) = RefKeys
           /\ SeqSet(walk.keys) = StoredKeys(rbt)

\* after an erase, a tree of three or more keys in which a rotation has run
\* (only rotate() turns a node below the root black)
C9_Witness ==
    /\ sut = "rbt" /\ ret.op = "erase" /\ ret.ok
    /\ RedBlackTree_size(rbt) >= 3
    /\ \E n \in Owned(rbt, rbt.root) : rbt.node[n].parent # Null /\ ~rbt.node[n].red
    /\ Len(Iterate(rbt).keys) >= 3

\* for every index i > 0, comp(storage[(i-1)/2], storage[i]) is false
IsHeap(q, c) ==
    \A i \in 1..(Len(q) - 1) : ~Cmp(c, At(q, (i - 1) \div 2), At(q, i))

\* C10: after any sequence of Heap::push and Heap::pop calls (pop only on a
\* non-empty heap), starting from a default-constructed Heap or one built
\* from a range, the storage satisfies the binary-heap property.
C10_HeapProperty == sut = "heap" => IsHeap(storage, comp)

\* a pop that left at least three elements, not all equal
C10_Witness ==
    /\ sut = "heap" /\ ret.op = "pop"
    /\ Len(storage) >= 3
    /\ Cardinality(SeqSet(storage)) >= 2
    /\ IsHeap(storage, comp)

\* C11: for every non-empty Heap reachable by construction, push and pop,
\* top() returns a stored element e such that comp(e, x) is false for every
\* stored element x (the maximum under std::less, the minimum under
\* std::greater).
C11_TopExtremal ==
    (sut = "heap" /\ Len(storage) > 0) =>
        /\ \E i \in 1..Len(storage) : storage[i] = Heap_top(storage)
        /\ \A i \in 1..Len(storage) : ~Cmp(comp, Heap_top(storage), storage[i])

\* after a pop, a heap of four or more elements that holds duplicates and
\* at least two different values
C11_Witness ==
    /\ sut = "heap" /\ ret.op = "pop"
    /\ Len(storage) >= 4
    /\ Cardinality(SeqSet(storage)) \in 2..(Len(storage) - 1)
    /\ \A i \in 1..Len(storage) : ~Cmp(comp, Heap_top(storage), storage[i])

\* number of occurrences of e in q
Count(q, e) == Cardinality({i \in 1..Len(q) : q[i] = e})

\* q and r hold the same multiset of elements
SameElements(q, r) == \A e \in 1..MaxElem : Count(q, e) = Count(r, e)

\* each element is not comp-less than the next one
SortedBy(q, c) == \A i \in 1..(Len(q) - 1) : ~Cmp(c, q[i], q[i + 1])

\* C12: pushing any n elements (duplicates allowed, any order) into an empty
\* Heap and then calling top() followed by pop() n times returns exactly the
\* multiset of pushed elements in fully sorted comparator order and leaves
\* the heap empty.
C12_PushThenDrain ==
    (sut = "heap" /\ Len(out) = Len(log)) =>
        /\ SameElements(out, log)
        /\ SortedBy(out, comp)
        /\ storage = <<>>

\* a drained heap of MaxLen pushed values, with duplicates, pushed neither
\* in increasing nor in decreasing order
C12_Witness ==
    /\ sut = "heap" /\ ret.op = "pop"
    /\ Len(log) = MaxLen /\ Len(out) = MaxLen
    /\ Cardinality(SeqSet(log)) \in 2..(MaxLen - 1)
    /\ ~SortedBy(log, "less") /\ ~SortedBy(log, "greater")
    /\ storage = <<>>

\* C13: algos::make_heap applied to any sequence (empty, one-element and
\* with duplicates included) rearranges it into a permutation of the input
\* that satisfies the binary-heap property for the comparator, so a Heap
\* constructed from a range starts as a valid heap whose top() is the
\* extremal input element.
C13_MakeHeap ==
    (sut = "heap" /\ ret.op = "construct") =>
        /\ Len(storage) = Len(log)
        /\ SameElements(storage, log)
        /\ IsHeap(storage, comp)
        /\ Len(log) > 0 =>
              \A i \in 1..Len(log) : ~Cmp(comp, Heap_top(storage), log[i])

\* a heap constructed from MaxLen values with duplicates that were not a
\* heap and whose extremal value was last
C13_Witness ==
    /\ sut = "heap" /\ ret.op = "construct"
    /\ Len(log) = MaxLen
    /\ Cardinality(SeqSet(log)) \in 2..(MaxLen - 1)
    /\ ~IsHeap(log, comp)
    /\ \A i \in 1..(MaxLen - 1) : Cmp(comp, log[i], log[MaxLen])
    /\ Heap_top(storage) = log[MaxLen]

\* C14: algos::pop_heap applied to a valid non-empty heap [first, last)
\* leaves the former first element at position last-1 and leaves
\* [first, last-1) a valid heap containing exactly the other elements; on a
\* one-element range it changes nothing.
C14_PopHeap ==
    [][(sut = "heap" /\ ret'.op = "pop") =>
        LET n == Len(storage)
            r == pop_heap(storage, comp)
        IN /\ IsHeap(storage, comp) /\ n > 0
           /\ Len(r) = n
           /\ r[n] = storage[1]
           /\ IsHeap(SubSeq(r, 1, n - 1), comp)
           /\ SameElements(r, storage)
           /\ (n = 1 => r = storage)
           /\ storage' = SubSeq(r, 1, n - 1)]_vars

\* a pop that removed a strictly extremal top and left four elements with
\* duplicates
C14_Witness ==
    /\ sut = "heap" /\ ret.op = "pop"
    /\ Len(storage) = MaxLen - 1
    /\ \A i \in 1..Len(storage) : Cmp(comp, storage[i], ret.val)
    /\ Cardinality(SeqSet(storage)) \in 2..(Len(storage) - 1)
    /\ IsHeap(storage, comp)

\* number of edges on the longest path from n down to a leaf; -1 for an
\* empty subtree, 0 for a leaf
RECURSIVE Height(_, _)
Height(t, n) ==
    IF ~Live(t, n) THEN -1
    ELSE Max(Height(t, t.node[n].left), Height(t, t.node[n].right)) + 1

Balanced(t) ==
    \A n \in Owned(t, t.root) :
        Height(t, t.node[n].left) - Height(t, t.node[n].right) \in {-1, 0, 1}

\* C15: in AvlTree, after every insert and every erase that returns, every
\* node satisfies |height(left subtree) - height(right subtree)| <= 1, where
\* the height of an empty subtree is -1 and of a leaf is 0.
C15_Balanced == (sut = "avl" /\ ~avl.fault) => Balanced(avl)

\* C16: in AvlTree, an insert that returns leaves every node that was stored
\* before it alive, attached to the tree and holding the same key and value,
\* so an iterator to a stored key stays valid across inserts of other keys.
C16_InsertKeepsNodes ==
    [][(sut = "avl" /\ ret'.op = "insert" /\ ~avl.fault) =>
        LET r == AvlTree_insert(avl, ret'.key, ret'.val).t
        IN ~r.fault =>
              \A n \in Owned(avl, avl.root) :
                  /\ Live(r, n)
                  /\ n \in Owned(r, r.root)
                  /\ r.node[n].key = avl.node[n].key
                  /\ r.node[n].val = avl.node[n].val]_vars

\* every node's parent pointer is its structural parent
ParentsMirror(t) ==
    /\ t.root # Null => t.node[t.root].parent = Null
    /\ \A n \in Owned(t, t.root) :
          /\ t.node[n].left # Null => t.node[t.node[n].left].parent = n
          /\ t.node[n].right # Null => t.node[t.node[n].right].parent = n

\* the tree is a search tree that holds every key inserted so far
HoldsEveryKey(t) ==
    /\ StrictlyIncreasing(InOrder(t, t.root))
    /\ StoredKeys(t) = RefKeys

\* C17: in AvlTree, after every insert that returns and leaves a search tree
\* holding every inserted key, every node's parent pointer equals its true
\* structural parent: the root's parent is null and for every node n with
\* child c, c.parent == n, the subtree a rotation moved included.
C17_ParentsMirror ==
    (sut = "avl" /\ ~avl.fault /\ HoldsEveryKey(avl)) => ParentsMirror(avl)

\* C18: AvlTree::rotateRight and AvlTree::rotateLeft, called on the slot of
\* a node that has the child to promote, return, place the new subtree root
\* into that same slot and leave the parent's other child slot unchanged,
\* whichever side of its parent the rotated node is on.
C18_RotateSlot ==
    [][(sut = "avl" /\ ret'.op \in {"rotateRight", "rotateLeft"}) =>
        LET n == ret'.it
            s == SlotOf(avl, n)
            newRoot == IF ret'.op = "rotateRight" THEN avl.node[n].left
                       ELSE avl.node[n].right
        IN /\ ~avl'.fault
           /\ Get(avl', s) = newRoot
           /\ Live(avl', newRoot)
           /\ s.owner # Null =>
                 LET other == IF s.side = "left" THEN RightSlot(s.owner)
                              ELSE LeftSlot(s.owner)
                 IN /\ Live(avl', s.owner)
                    /\ Get(avl', other) = Get(avl, other)
                    /\ Get(avl, other) # Null => Live(avl', Get(avl, other))]_vars

\* C19: in RedBlackTree, after every insert and every erase in any sequence
\* of operations, the root node, if the tree is non-empty, is black.
C19_RootBlack ==
    (sut = "rbt" /\ rbt.root # Null) => ~rbt.node[rbt.root].red

\* C20: in RedBlackTree, after every insert and every erase in any sequence
\* of operations, no red node has a red child.
C20_NoRedRed ==
    sut = "rbt" =>
        \A n \in Owned(rbt, rbt.root) :
            rbt.node[n].red =>
                /\ rbt.node[n].left # Null => ~rbt.node[rbt.node[n].left].red
                /\ rbt.node[n].right # Null => ~rbt.node[rbt.node[n].right].red

\* an insert below a red node: the new node came out black below the root
\* (only the recolouring after a rotation does that) and a red node remains
C20_Witness ==
    /\ sut = "rbt" /\ ret.op = "insert" /\ ret.ok
    /\ ret.it # rbt.root
    /\ ~rbt.node[ret.it].red
    /\ \E n \in Owned(rbt, rbt.root) : rbt.node[n].red /\ rbt.node[n].parent # Null

\* the numbers of black nodes met on the paths from node n (included) down
\* to each empty child slot below it
RECURSIVE BlackCounts(_, _)
BlackCounts(t, n) ==
    IF n = Null THEN {0}
    ELSE LET below == BlackCounts(t, t.node[n].left) \cup BlackCounts(t, t.node[n].right)
             own == IF t.node[n].red THEN 0 ELSE 1
         IN {c + own : c \in below}

\* C21: in RedBlackTree, after every insert and every erase in any sequence
\* of operations, for every node all paths from that node down to an empty
\* child slot pass through the same number of black nodes.
C21_EqualBlackHeight ==
    sut = "rbt" =>
        \A n \in Owned(rbt, rbt.root) : Cardinality(BlackCounts(rbt, n)) = 1

\* erase(key) turned tree t into r: if the node that held key had two
\* children, it is still attached and now holds the element of its in-order
\* successor, and the successor's node is the only node freed
ErasedThroughSuccessor(t, r, key) ==
    LET n == findHelper(t, key, t.root)
    IN (n # Null /\ t.node[n].left # Null /\ t.node[n].right # Null) =>
          LET tmp == Leftmost(t, t.node[n].right)
          IN /\ ~r.fault
             /\ Live(r, n) /\ n \in Owned(r, r.root)
             /\ r.node[n].key = t.node[tmp].key
             /\ r.node[n].val = t.node[tmp].val
             /\ Owned(t, t.root) \ Owned(r, r.root) = {tmp}
             /\ {m \in NodeIds : t.node[m].alive /\ ~r.node[m].alive} = {tmp}
             /\ t.node[tmp].left = Null \/ t.node[tmp].right = Null

\* a well-formed AVL tree: search order over the keys inserted, mirrored
\* parents, balanced
WellFormedAvl(t) ==
    ~t.fault /\ HoldsEveryKey(t) /\ ParentsMirror(t) /\ Balanced(t)

\* C22: in AvlTree (called on a well-formed tree) and RedBlackTree, erasing a
\* key whose node has two children copies the key and value of the in-order
\* successor into that node and frees exactly one node, the successor's.
C22_EraseTwoChildren ==
    [][ret'.op = "erase" =>
        /\ (sut = "avl" /\ WellFormedAvl(avl)) =>
              ErasedThroughSuccessor(avl, AvlTree_erase(avl, ret'.key).t, ret'.key)
        /\ sut = "rbt" =>
              ErasedThroughSuccessor(rbt, RedBlackTree_erase(rbt, ret'.key).t, ret'.key)]_vars

\* the index at which the element that starts at index i should stop: the
\* root, or the first position whose parent is not comp-less than it
RECURSIVE YieldStop(_, _, _)
YieldStop(q, i, c) ==
    IF i = 0 THEN 0
    ELSE LET parentPos == (i - 1) \div 2 IN
         IF Cmp(c, At(q, parentPos), At(q, i)) THEN YieldStop(Swap(q, parentPos, i), parentPos, c)
         ELSE i

\* C23: algos::push_heap, given a heap extended by one element, moves that
\* element up only while the parent is comp-less than it: it stops without
\* swapping at the root or at the first position where the parent is not
\* comp-less than the element, equivalent elements included.
C23_PushStopsAtFirstFit ==
    [][(sut = "heap" /\ ret'.op = "push") =>
        LET q == Append(storage, ret'.val)
        IN /\ storage' = push_heap(q, comp)
           /\ PushStop(q, Len(q), comp) = YieldStop(q, Len(q) - 1, comp)]_vars

====
